---------------------------- MODULE Spec2Model ----------------------------
(***************************************************************************)
(* Asynchronous task polling and deduplication of the generation tools.    *)
(*                                                                         *)
(* Part I   the tools' execute() calls: validation, the abort check, the   *)
(*          submission request(s), the poll loop and the mapping of the    *)
(*          poll result to a ToolResult (audio-generator.ts,               *)
(*          image-generator.ts, transcription.ts, scene-timing.ts and the  *)
(*          two older variants of the scene-timing and audio tools).       *)
(* Part II  the AudioGenerationDeduplicator registry                       *)
(*          (audio-generator-dedup.ts) with its clock and timers.          *)
(***************************************************************************)
EXTENDS Integers, Sequences, FiniteSets, TLC

(***************************************************************************)
(* Bounds of the model.                                                    *)
(***************************************************************************)
\* maxAttempts is a local constant of every poll loop (150, 60, 60, 300,
\* 300).  The loops are parametric in it; the model draws it from
\* 1..MaxAttempts.
MaxAttempts == 3
\* maxAttempts of the two concurrent calls of SpecConc is drawn from
\* 1..MaxAttemptsConc.
MaxAttemptsConc == 1

(***************************************************************************)
(* Program constants.                                                      *)
(***************************************************************************)
AudioPollInterval == 2000
\* maxAttempts of the audio tool's pollForCompletion.
AudioMaxAttempts == 150
ImagePollInterval == 5000
TranscriptionPollInterval == 5000
ScenePollInterval == 3000
SceneInlinePollInterval == 3000

(***************************************************************************)
(* Values.                                                                 *)
(***************************************************************************)
\* A field that is missing from a JSON body (undefined in the code).
Absent == "absent"

\* JavaScript truthiness of an optional string field: undefined and '' are
\* falsy.  "[]" stands for an empty array, which is truthy.
Truthy(x) == x \notin {Absent, ""}

\* x.length > 0 for an optional array field that is known to be truthy.
NonEmptyList(x) == x \notin {Absent, "", "[]"}

\* The tools.  "sceneInline" is the scene-timing variant whose submission
\* may complete inline; "audioSingle" the single-request audio variant.
Tools == {"audio", "image", "transcription", "scene", "sceneInline", "audioSingle"}

\* The tools that poll.
PollingTools == Tools \ {"audioSingle"}

Callers == {"c1", "c2"}

\* Error messages (the tool-specific wording is dropped).
MsgValidation == "validation error"
MsgCancelled == "was cancelled"
MsgTimeout == "timed out"
MsgUnknown == "failed with unknown error"
MsgDefaultFailed == "generation failed"
MsgCheckStatus == "Failed to check status"
MsgInitiate == "Failed to initiate"
MsgNoTaskId == "No task ID returned"
MsgNetwork == "fetch failed"
MsgAbortError == "This operation was aborted"

\* Errors the backend reports in a body.
BackendErrors == {"E1"}

\* response.ok: the HTTP status is in 200..299.
HttpCodes == {200, 400, 404, 500, 503}
ResponseOk(http) == http >= 200 /\ http <= 299

\* The ceilings of params.text.length (audio) and params.prompt.length (image).
AudioMaxTextLength == 6000
ImageMaxPromptLength == 1000

\* A text above both ceilings, and the texts made of white space only.
LongText == "long text"
WhitespaceOnly == {"   "}

\* text.length and text.trim()
TextLength(text) == IF text = LongText THEN AudioMaxTextLength + 1 ELSE Len(text)
Trim(text) == IF text \in WhitespaceOnly THEN "" ELSE text

\* A request: the primary content and the capability parameters.
Requests == [text : {"", "   ", LongText, "Hello world", "Bye"}, voice : {"zephyr", "bogus"},
             language : {"en", "es", "xx"}, aspect_ratio : {"landscape", "circle"}]

\* The requests of tool t: voice and language are parameters of the audio
\* tool only, aspect_ratio of the image tool only; elsewhere they keep one
\* value.
RequestsOf(t) ==
    {r \in Requests :
        /\ t # "audio" => (r.voice = "zephyr" /\ r.language = "en")
        /\ t # "image" => r.aspect_ratio = "landscape"}

VALID_VOICE_IDS == {"zephyr", "aoede"}
SUPPORTED_LANGUAGES == {"en", "es"}
validAspectRatios == {"square", "landscape", "portrait", "landscape_4_3", "portrait_3_4"}

\* voice.languages of the entry of voicesData.voices with this id.
VoiceLanguages(voice) == IF voice = "aoede" THEN {"en", "es"} ELSE {"en"}

\* Mutation: only the presence of the text is validated.
validateToolParamsTextOnly(t, r) == IF r.text = "" THEN MsgValidation ELSE Absent

\* validateToolParams / validateParams: the error message, or Absent for
\* null.  For the tools other than audio, text stands for the primary
\* content (prompt, file_path, the text of the scenes), which must not be
\* empty; the transcription tool accepts any non-empty file_path.
validateToolParams(t, r) ==
    IF ~Truthy(r.text) THEN MsgValidation
    ELSE IF t # "transcription" /\ Trim(r.text) = "" THEN MsgValidation
    ELSE IF t \in {"audio", "audioSingle"} /\ TextLength(r.text) > AudioMaxTextLength
         THEN MsgValidation
    ELSE IF t = "image" /\ TextLength(r.text) > ImageMaxPromptLength THEN MsgValidation
    ELSE IF t = "image" /\ r.aspect_ratio \notin validAspectRatios THEN MsgValidation
    ELSE IF t = "audio" /\ r.voice \notin VALID_VOICE_IDS THEN MsgValidation
    ELSE IF t = "audio" /\ r.language \notin SUPPORTED_LANGUAGES THEN MsgValidation
    ELSE IF t = "audio" /\ r.language \notin VoiceLanguages(r.voice) THEN MsgValidation
    ELSE Absent

\* A status (or result) response is a record of how fetch settled (net), the
\* HTTP status (http) and the fields of the JSON body that the tools read:
\* status, stage, success, payload (audio_url, images, transcript_text,
\* scene_mappings, gcs_file_path), scenes and error.
\* A rejected fetch, and a response without a body that the tools read.
Bodyless(net, http) ==
    [net |-> net, http |-> http, status |-> Absent, stage |-> Absent, success |-> Absent,
     payload |-> Absent, scenes |-> Absent, error |-> Absent]

\* The 200 responses with the body fields drawn from the given sets.
Bodies(statusSet, stageSet, successSet, payloadSet, scenesSet) ==
    [net : {"resolve"}, http : {200}, status : statusSet, stage : stageSet,
     success : successSet, payload : payloadSet, scenes : scenesSet,
     error : {Absent} \cup BackendErrors]

\* The responses a tool's backend sends: a rejected fetch, a non-OK response
\* (whose body the tools do not read) or a 200 response with the fields the
\* tool reads.  "" is an empty string, "[]" an empty array.
ResponseTable ==
    [t \in Tools |->
        {Bodyless("reject", 200)} \cup {Bodyless("resolve", h) : h \in HttpCodes \ {200}} \cup
        CASE t = "audio" ->
               Bodies({Absent, "completed", "failed", "processing"}, {Absent}, {Absent},
                      {Absent, "", "P1", "P2"}, {Absent})
          [] t = "image" ->
               Bodies({Absent, "completed", "failed", "processing"}, {Absent}, {Absent},
                      {Absent, "[]", "P1", "P2"}, {Absent})
          [] t = "transcription" ->
               Bodies({Absent, "success", "failed", "processing"},
                      {Absent, "completed", "error", "processing"}, {Absent},
                      {Absent, "", "P1", "P2"}, {Absent})
          [] t = "scene" ->
               Bodies({Absent}, {Absent}, {Absent, "true", "false"},
                      {Absent, "[]", "P1", "P2"}, {Absent})
          [] t = "sceneInline" ->
               Bodies({Absent, "completed", "failed", "processing"}, {Absent},
                      {Absent, "true", "false"}, {Absent, "[]", "P1", "P2"}, {Absent, "P3"})
          [] t = "audioSingle" ->
               Bodies({Absent, "success", "failed"}, {Absent}, {Absent},
                      {Absent, "", "P1", "P2"}, {Absent})]

ResponsesOf(t) == ResponseTable[t]

(***************************************************************************)
(* What one status response makes the poll loop do.                        *)
(***************************************************************************)
\* return { success, <payload>, error } from the poll.
Return(s, pl, e) == [act |-> "return", success |-> s, payload |-> pl, error |-> e, ms |-> 0]
\* await the sleep of ms milliseconds, then the next iteration.
Wait(ms) == [act |-> "wait", success |-> FALSE, payload |-> Absent, error |-> Absent, ms |-> ms]
\* throw new Error(msg) inside the try block.
Throw(msg) == [act |-> "throw", success |-> FALSE, payload |-> Absent, error |-> msg, ms |-> 0]

OrDefault(e, d) == IF Truthy(e) THEN e ELSE d


(***************************************************************************)
(* The status adapters: the body of the try block of each poll loop after  *)
(* the fetch has resolved with response r.                                 *)
(***************************************************************************)
ClassifyAudio(r) ==
    IF ~ResponseOk(r.http) THEN Throw(MsgCheckStatus)
    ELSE IF r.status = "completed" THEN Return(TRUE, r.payload, Absent)
    ELSE IF r.status = "failed" THEN Return(FALSE, Absent, OrDefault(r.error, MsgDefaultFailed))
    ELSE Wait(AudioPollInterval)

ClassifyImage(r) ==
    IF ~ResponseOk(r.http) THEN Throw(MsgCheckStatus)
    ELSE IF r.status = "completed"
         THEN Return(TRUE, IF Truthy(r.payload) THEN r.payload ELSE "[]", Absent)
    ELSE IF r.status = "failed" THEN Return(FALSE, Absent, OrDefault(r.error, MsgDefaultFailed))
    ELSE Wait(ImagePollInterval)

\* Mutation: the stage alone decides that the transcription is complete.
ClassifyTranscriptionStageOnly(r) ==
    IF ~ResponseOk(r.http) THEN Throw(MsgCheckStatus)
    ELSE IF r.stage = "completed" THEN Return(TRUE, r.payload, Absent)
    ELSE IF r.stage = "error" \/ r.status = "failed"
         THEN Return(FALSE, Absent, OrDefault(r.error, MsgDefaultFailed))
    ELSE Wait(TranscriptionPollInterval)

ClassifyTranscription(r) ==
    IF ~ResponseOk(r.http) THEN Throw(MsgCheckStatus)
    ELSE IF r.stage = "completed" /\ r.status = "success" THEN Return(TRUE, r.payload, Absent)
    ELSE IF r.stage = "error" \/ r.status = "failed"
         THEN Return(FALSE, Absent, OrDefault(r.error, MsgDefaultFailed))
    ELSE Wait(TranscriptionPollInterval)

\* Mutation: HTTP 400 is an error like every other non-OK status.
ClassifySceneThrowsOn400(r) ==
    IF ~ResponseOk(r.http) THEN Throw(MsgCheckStatus)
    ELSE IF r.success = "true" /\ Truthy(r.payload) THEN Return(TRUE, r.payload, Absent)
    ELSE IF r.success = "false" THEN Return(FALSE, Absent, OrDefault(r.error, MsgDefaultFailed))
    ELSE Wait(ScenePollInterval)

\* scene-timing.ts: HTTP 400 means that the result is not ready yet.
ClassifyScene(r) ==
    IF ~ResponseOk(r.http)
    THEN IF r.http = 400 THEN Wait(ScenePollInterval) ELSE Throw(MsgCheckStatus)
    ELSE IF r.success = "true" /\ Truthy(r.payload) THEN Return(TRUE, r.payload, Absent)
    ELSE IF r.success = "false" THEN Return(FALSE, Absent, OrDefault(r.error, MsgDefaultFailed))
    ELSE Wait(ScenePollInterval)

ClassifySceneInline(r) ==
    IF ~ResponseOk(r.http)
    THEN IF r.http = 400 THEN Wait(SceneInlinePollInterval)
         ELSE IF r.http \in {502, 503, 504} THEN Wait(SceneInlinePollInterval * 2)
         ELSE Wait(SceneInlinePollInterval)
    ELSE IF r.success = "true" /\ Truthy(r.payload) THEN Return(TRUE, r.payload, Absent)
    ELSE IF r.success = "false" \/ Truthy(r.error)
         THEN Return(FALSE, Absent, OrDefault(r.error, MsgDefaultFailed))
    ELSE IF Truthy(r.status)
         THEN IF r.status = "completed"
              THEN Return(TRUE, IF Truthy(r.scenes) THEN r.scenes ELSE "[]", Absent)
              ELSE IF r.status = "failed"
                   THEN Return(FALSE, Absent, OrDefault(r.error, MsgDefaultFailed))
                   ELSE Wait(SceneInlinePollInterval)
    ELSE Wait(SceneInlinePollInterval)

\* pollInterval of each poll loop.
PollInterval(t) ==
    CASE t = "audio" -> AudioPollInterval
      [] t = "image" -> ImagePollInterval
      [] t = "transcription" -> TranscriptionPollInterval
      [] t = "scene" -> ScenePollInterval
      [] t = "sceneInline" -> SceneInlinePollInterval

\* Mutation: a task the backend reports as completed is polled again.
ClassifySucceededWaits(t, r) ==
    LET c == CASE t = "audio" -> ClassifyAudio(r)
               [] t = "image" -> ClassifyImage(r)
               [] t = "transcription" -> ClassifyTranscription(r)
               [] t = "scene" -> ClassifyScene(r)
               [] t = "sceneInline" -> ClassifySceneInline(r)
    IN  IF c.act = "return" /\ c.success THEN Wait(PollInterval(t)) ELSE c

\* Mutation: a task the backend reports as failed is polled again.
ClassifyRetryFailed(t, r) ==
    LET c == CASE t = "audio" -> ClassifyAudio(r)
               [] t = "image" -> ClassifyImage(r)
               [] t = "transcription" -> ClassifyTranscription(r)
               [] t = "scene" -> ClassifyScene(r)
               [] t = "sceneInline" -> ClassifySceneInline(r)
    IN  IF c.act = "return" /\ ~c.success THEN Wait(PollInterval(t)) ELSE c

\* The adapter of tool t.
Classify(t, r) ==
    CASE t = "audio" -> ClassifyAudio(r)
      [] t = "image" -> ClassifyImage(r)
      [] t = "transcription" -> ClassifyTranscription(r)
      [] t = "scene" -> ClassifyScene(r)
      [] t = "sceneInline" -> ClassifySceneInline(r)

(***************************************************************************)
(* The ToolResult of execute.                                              *)
(***************************************************************************)
NoResult == [success |-> FALSE, error |-> Absent, payload |-> Absent]
Failure(msg) == [success |-> FALSE, error |-> msg, payload |-> Absent]
Success(pl) == [success |-> TRUE, error |-> Absent, payload |-> pl]

\* Mutation: the payload is not looked at.
AcceptsWithoutPayload(t, res) == res.success

\* The test execute applies to the result of the poll before it reports
\* success.
Accepts(t, res) ==
    CASE t \in {"audio", "transcription", "scene"} -> res.success /\ Truthy(res.payload)
      [] t \in {"image", "sceneInline"} ->
            res.success /\ Truthy(res.payload) /\ NonEmptyList(res.payload)

\* Mutation: whatever the poll returned is reported as a success.
ToolResultOfAlwaysSuccess(t, res) == Success(res.payload)

\* execute after the poll has returned res: the success ToolResult, or the
\* throw of result.error || '... unknown error' that its catch block turns
\* into a failure ToolResult.
ToolResultOf(t, res) ==
    IF Accepts(t, res) THEN Success(res.payload)
    ELSE Failure(OrDefault(res.error, MsgUnknown))


(***************************************************************************)
(* Part I.  State of the execute() calls.                                  *)
(***************************************************************************)
VARIABLES
    tool,          \* the tool whose execute is called
    maxAttempts,   \* the poll loop's maxAttempts
    callers,       \* the calls that take place
    req,           \* req[p]: the params of call p
    pc,            \* pc[p]: where call p stands
    aborted,       \* aborted[p]: signal.aborted of the call's AbortSignal
    abortedAtCall, \* aborted[p] at the moment execute was called
    overlapped,    \* overlapped[p]: another call was running when p was called
    attempt,       \* attempt[p]: the loop variable of the poll loop
    posts,         \* posts[p]: submission requests (POST) issued
    statusReqs,    \* statusReqs[p]: status requests issued by the poll loop
    inlineGets,    \* inlineGets[p]: result requests issued by the submission
    answered,      \* answered[p]: the requests of p whose fetch has settled
    initSeen,      \* initSeen[p]: what initiateSceneTiming of the inline tool met
    sleeps,        \* sleeps[p]: sleeps started by the poll loop
    sleepMs,       \* sleepMs[p]: the delay of the sleep in progress
    nInProgress,   \* status checks that answered 2xx and "not finished"
    nTransient,    \* status checks that were rejected or answered non-2xx
    nNotReady,     \* status checks that answered HTTP 400
    lastCheck,     \* what the latest status check made of its response
    result         \* result[p]: the ToolResult execute resolved to

callVars == <<tool, maxAttempts, callers, req, pc, aborted, abortedAtCall, overlapped,
              attempt, posts, statusReqs, inlineGets, answered, initSeen, sleeps, sleepMs,
              nInProgress, nTransient, nNotReady, lastCheck, result>>

\* The registry (Part II).
VARIABLES
    activeTasks,   \* the Map, as the sequence of its values in insertion order
    now,           \* Date.now()
    sweepDue,      \* the next firing of the cleanup setInterval
    retireTimers,  \* the pending deletion timeouts: [taskId, due]
    lastOp,        \* the latest operation on the registry, and what it met
    instance,      \* the static instance field: 0 while undefined, else the object
    constructed,   \* the runs of the constructor, each starting a cleanup interval
    cleanupTimer   \* the interval of the instance: "none", "running" or "cleared"

lifeVars == <<instance, constructed, cleanupTimer>>

regVars == <<activeTasks, now, sweepDue, retireTimers, lastOp, lifeVars>>

\* Callers that consult the registry before they submit.
VARIABLES
    dpc,           \* dpc[c]: where caller c stands
    dreq,          \* dreq[c]: its (text, voice, instructions)
    dposts         \* dposts[c]: the submission requests it issued

dedupVars == <<dpc, dreq, dposts>>

\* Two requests whose fingerprints are computed.
VARIABLES
    fpReq,         \* fpReq[k]: the (text, voice, language, instructions) of request k
    fpHash         \* fpHash[k]: the digest computed for it, Absent before

fpVars == <<fpReq, fpHash>>

\* The server-sent stream read by CodeAssistServer.streamEndpoint.
VARIABLES
    stream,        \* the lines readline delivers, in order
    pos,           \* the lines the for await loop has taken
    bufferedLines, \* the generator's bufferedLines
    yielded,       \* the events the generator has yielded, in order
    spc            \* "reading", "ended" (the loop is left) or "thrown"

sseVars == <<stream, pos, bufferedLines, yielded, spc>>

vars == <<callVars, regVars, dedupVars, fpVars, sseVars>>

\* pc values: "idle" (not called yet), "submit" (submission request in
\* flight), "start" (transcription's start request in flight), "inline"
\* (the inline result request of sceneInline in flight), "loop" (at the head
\* of the for loop), "status" (status request in flight), "sleep" (awaiting
\* the setTimeout promise), "done" (execute has resolved).
InFlight == {"submit", "start", "inline", "status"}

\* The submission responses.
SubmitResponses ==
    [net : {"resolve", "reject"}, http : {200, 400, 500},
     task_id : {Absent, "T"}, status : {Absent, "completed"}]

\* What initiateSceneTiming met: the status of the accepted submission
\* response, and of the response to its result request whether the fetch
\* resolved, response.ok, resultData.success === true and the
\* scene_mappings ("absent", "empty" or "present").
NoInit == [status |-> "none", net |-> "none", ok |-> FALSE, success |-> FALSE,
           mappings |-> "none"]

MappingsOf(payload) ==
    IF ~Truthy(payload) THEN "absent" ELSE IF NonEmptyList(payload) THEN "present" ELSE "empty"

SeenSubmit(seen, s) == [seen EXCEPT !.status = s.status]

SeenResult(seen, r) ==
    [seen EXCEPT !.net = r.net, !.ok = (r.net = "resolve" /\ ResponseOk(r.http)),
                 !.success = (r.success = "true"), !.mappings = MappingsOf(r.payload)]

\* No status check has been made yet.
NoCheck ==
    [kind |-> "none", error |-> Absent, net |-> Absent, http |-> 0, success |-> Absent,
     payload |-> Absent, stage |-> Absent, status |-> Absent]

InitCalls(toolSet, callerSet, limit, reqSet) ==
    /\ tool \in toolSet
    /\ maxAttempts \in 1..limit
    /\ callers = callerSet
    /\ req \in [Callers -> reqSet \cap RequestsOf(tool)]
    /\ \A p \in Callers \ callerSet : req[p] = CHOOSE r \in reqSet \cap RequestsOf(tool) : TRUE
    /\ pc = [p \in Callers |-> "idle"]
    /\ aborted = [p \in Callers |-> FALSE]
    /\ abortedAtCall = [p \in Callers |-> FALSE]
    /\ overlapped = [p \in Callers |-> FALSE]
    /\ attempt = [p \in Callers |-> 0]
    /\ posts = [p \in Callers |-> 0]
    /\ statusReqs = [p \in Callers |-> 0]
    /\ inlineGets = [p \in Callers |-> 0]
    /\ answered = [p \in Callers |-> 0]
    /\ initSeen = [p \in Callers |-> NoInit]
    /\ sleeps = [p \in Callers |-> 0]
    /\ sleepMs = [p \in Callers |-> 0]
    /\ nInProgress = [p \in Callers |-> 0]
    /\ nTransient = [p \in Callers |-> 0]
    /\ nNotReady = [p \in Callers |-> 0]
    /\ lastCheck = [p \in Callers |-> NoCheck]
    /\ result = [p \in Callers |-> NoResult]

\* The awaited fetch of call p settles (it resolves or rejects).
Settle(p) == answered' = [answered EXCEPT ![p] = @ + 1]

\* execute resolves to r.
Resolve(p, r) ==
    /\ pc' = [pc EXCEPT ![p] = "done"]
    /\ result' = [result EXCEPT ![p] = r]
    /\ sleepMs' = [sleepMs EXCEPT ![p] = 0]

\* pollForCompletion is called: the for loop starts with attempt = 0.
EnterPoll(p) ==
    /\ pc' = [pc EXCEPT ![p] = "loop"]
    /\ attempt' = [attempt EXCEPT ![p] = 0]
    /\ UNCHANGED <<result, sleepMs>>

\* Mutation: execute does not look at the signal before it submits.
AbortedAtEntryNever(p) == FALSE

\* The abort check at the head of execute's try block.
AbortedAtEntry(p) == aborted[p]

\* Mutation: the first status request is issued without awaiting the
\* submission.
executeWithoutAwait(p) ==
    /\ p \in callers
    /\ pc[p] = "idle"
    /\ abortedAtCall' = [abortedAtCall EXCEPT ![p] = aborted[p]]
    /\ overlapped' = [overlapped EXCEPT ![p] = \E q \in callers : pc[q] \notin {"idle", "done"}]
    /\ IF validateToolParams(tool, req[p]) # Absent
       THEN Resolve(p, Failure(validateToolParams(tool, req[p]))) /\ UNCHANGED posts
       ELSE IF AbortedAtEntry(p)
            THEN Resolve(p, Failure(MsgCancelled)) /\ UNCHANGED posts
            ELSE /\ pc' = [pc EXCEPT ![p] = "submit"]
                 /\ posts' = [posts EXCEPT ![p] = @ + 1]
                 /\ UNCHANGED <<result, sleepMs>>
    /\ statusReqs' = [statusReqs EXCEPT ![p] = IF pc'[p] = "submit" THEN @ + 1 ELSE @]
    /\ UNCHANGED <<tool, maxAttempts, callers, req, aborted, attempt,
                   inlineGets, sleeps, nInProgress, nTransient, nNotReady, lastCheck>>
    /\ UNCHANGED answered
    /\ UNCHANGED initSeen
    /\ UNCHANGED <<regVars, dedupVars, fpVars, sseVars>>

\* execute is called: validation, the abort check, then the submission
\* request is issued.
execute(p) ==
    /\ p \in callers
    /\ pc[p] = "idle"
    /\ abortedAtCall' = [abortedAtCall EXCEPT ![p] = aborted[p]]
    /\ overlapped' = [overlapped EXCEPT ![p] = \E q \in callers : pc[q] \notin {"idle", "done"}]
    /\ IF validateToolParams(tool, req[p]) # Absent
       THEN Resolve(p, Failure(validateToolParams(tool, req[p]))) /\ UNCHANGED posts
       ELSE IF AbortedAtEntry(p)
            THEN Resolve(p, Failure(MsgCancelled)) /\ UNCHANGED posts
            ELSE /\ pc' = [pc EXCEPT ![p] = "submit"]
                 /\ posts' = [posts EXCEPT ![p] = @ + 1]
                 /\ UNCHANGED <<result, sleepMs>>
    /\ UNCHANGED <<tool, maxAttempts, callers, req, aborted, attempt, statusReqs,
                   inlineGets, sleeps, nInProgress, nTransient, nNotReady, lastCheck>>
    /\ UNCHANGED answered
    /\ UNCHANGED initSeen
    /\ UNCHANGED <<regVars, dedupVars, fpVars, sseVars>>

\* The response to the submission request of a polling tool
\* (initiateAudioGeneration and its counterparts).
SubmitResponse(p, s) ==
    /\ tool \in PollingTools
    /\ pc[p] = "submit"
    /\ IF s.net = "reject" THEN
            Resolve(p, Failure(MsgNetwork)) /\ UNCHANGED <<attempt, posts, inlineGets>>
       ELSE IF ~ResponseOk(s.http) THEN
            Resolve(p, Failure(MsgInitiate)) /\ UNCHANGED <<attempt, posts, inlineGets>>
       ELSE IF ~Truthy(s.task_id) THEN
            Resolve(p, Failure(MsgNoTaskId)) /\ UNCHANGED <<attempt, posts, inlineGets>>
       ELSE IF tool = "transcription" THEN
            /\ pc' = [pc EXCEPT ![p] = "start"]
            /\ posts' = [posts EXCEPT ![p] = @ + 1]
            /\ UNCHANGED <<attempt, inlineGets, result, sleepMs>>
       ELSE IF tool = "sceneInline" /\ s.status = "completed" THEN
            /\ pc' = [pc EXCEPT ![p] = "inline"]
            /\ inlineGets' = [inlineGets EXCEPT ![p] = @ + 1]
            /\ UNCHANGED <<attempt, posts, result, sleepMs>>
       ELSE EnterPoll(p) /\ UNCHANGED <<posts, inlineGets>>
    /\ UNCHANGED <<tool, maxAttempts, callers, req, aborted, abortedAtCall, overlapped, statusReqs,
                   sleeps, nInProgress, nTransient, nNotReady, lastCheck>>
    /\ Settle(p)
    /\ initSeen' = [initSeen EXCEPT ![p] =
            IF tool = "sceneInline" /\ s.net = "resolve" /\ ResponseOk(s.http) /\ Truthy(s.task_id)
            THEN SeenSubmit(@, s) ELSE @]
    /\ UNCHANGED <<regVars, dedupVars, fpVars, sseVars>>

\* The response to startTranscription's request.
StartResponse(p, s) ==
    /\ pc[p] = "start"
    /\ IF s.net = "reject" THEN Resolve(p, Failure(MsgNetwork)) /\ UNCHANGED attempt
       ELSE IF ~ResponseOk(s.http) THEN Resolve(p, Failure(MsgInitiate)) /\ UNCHANGED attempt
       ELSE EnterPoll(p)
    /\ UNCHANGED <<tool, maxAttempts, callers, req, aborted, abortedAtCall, overlapped, posts,
                   statusReqs, inlineGets, sleeps, nInProgress, nTransient, nNotReady, lastCheck>>
    /\ Settle(p)
    /\ UNCHANGED initSeen
    /\ UNCHANGED <<regVars, dedupVars, fpVars, sseVars>>

\* Mutation: a result request without a usable result fails the call.
InlineResponseFailsWithoutResult(p, r) ==
    /\ pc[p] = "inline"
    /\ IF r.net = "reject" THEN Resolve(p, Failure(MsgNetwork)) /\ UNCHANGED attempt
       ELSE IF ResponseOk(r.http) /\ r.success = "true" /\ Truthy(r.payload)
            THEN Resolve(p, ToolResultOf(tool, Return(TRUE, r.payload, Absent)))
                 /\ UNCHANGED attempt
            ELSE Resolve(p, Failure(MsgUnknown)) /\ UNCHANGED attempt
    /\ UNCHANGED <<tool, maxAttempts, callers, req, aborted, abortedAtCall, overlapped, posts,
                   statusReqs, inlineGets, sleeps, nInProgress, nTransient, nNotReady, lastCheck>>
    /\ Settle(p)
    /\ initSeen' = [initSeen EXCEPT ![p] = SeenResult(@, r)]
    /\ UNCHANGED <<regVars, dedupVars, fpVars, sseVars>>

\* The response to the result request initiateSceneTiming issues when the
\* submission answered status 'completed'.
InlineResponse(p, r) ==
    /\ pc[p] = "inline"
    /\ IF r.net = "reject" THEN Resolve(p, Failure(MsgNetwork)) /\ UNCHANGED attempt
       ELSE IF ResponseOk(r.http) /\ r.success = "true" /\ Truthy(r.payload)
            THEN Resolve(p, ToolResultOf(tool, Return(TRUE, r.payload, Absent)))
                 /\ UNCHANGED attempt
            ELSE EnterPoll(p)
    /\ UNCHANGED <<tool, maxAttempts, callers, req, aborted, abortedAtCall, overlapped, posts,
                   statusReqs, inlineGets, sleeps, nInProgress, nTransient, nNotReady, lastCheck>>
    /\ Settle(p)
    /\ initSeen' = [initSeen EXCEPT ![p] = SeenResult(@, r)]
    /\ UNCHANGED <<regVars, dedupVars, fpVars, sseVars>>


(***************************************************************************)
(* The poll loop (pollForCompletion, pollForTranscriptionCompletion).      *)
(***************************************************************************)
\* Mutation: the loop runs one iteration too many.
LoopContinuesInclusive(a, n) == a <= n

\* The loop condition of for (let attempt = 0; attempt < maxAttempts; attempt++).
LoopContinues(a, n) == a < n

\* Mutation: an iteration does not count as an attempt.
NextAttemptStuck(a) == a

\* attempt++ at the end of an iteration (also reached by continue).
NextAttempt(a) == a + 1

\* Mutation: no sleep follows the check of the final iteration.
StartSleepSkipsLast(p, ms) ==
    /\ pc' = [pc EXCEPT ![p] = "sleep"]
    /\ sleeps' = [sleeps EXCEPT ![p] = IF attempt[p] + 1 < maxAttempts THEN @ + 1 ELSE @]
    /\ sleepMs' = [sleepMs EXCEPT ![p] = IF attempt[p] + 1 < maxAttempts THEN ms ELSE 0]
    /\ UNCHANGED result

\* await new Promise(resolve => setTimeout(resolve, ms)).
StartSleep(p, ms) ==
    /\ pc' = [pc EXCEPT ![p] = "sleep"]
    /\ sleeps' = [sleeps EXCEPT ![p] = @ + 1]
    /\ sleepMs' = [sleepMs EXCEPT ![p] = ms]
    /\ UNCHANGED result

\* The loop head finds the signal aborted: the throw leaves the poll and is
\* caught by execute.
PollCancelled(p) ==
    /\ pc[p] = "loop"
    /\ LoopContinues(attempt[p], maxAttempts)
    /\ aborted[p]
    /\ Resolve(p, Failure(MsgCancelled))
    /\ UNCHANGED <<tool, maxAttempts, callers, req, aborted, abortedAtCall, overlapped, attempt,
                   posts, statusReqs, inlineGets, sleeps, nInProgress, nTransient, nNotReady,
                   lastCheck>>
    /\ UNCHANGED answered
    /\ UNCHANGED initSeen
    /\ UNCHANGED <<regVars, dedupVars, fpVars, sseVars>>

\* The loop head issues the status request of this iteration.
PollRequest(p) ==
    /\ pc[p] = "loop"
    /\ LoopContinues(attempt[p], maxAttempts)
    /\ ~aborted[p]
    /\ pc' = [pc EXCEPT ![p] = "status"]
    /\ statusReqs' = [statusReqs EXCEPT ![p] = @ + 1]
    /\ UNCHANGED <<tool, maxAttempts, callers, req, aborted, abortedAtCall, overlapped, attempt,
                   posts, inlineGets, sleeps, sleepMs, nInProgress, nTransient, nNotReady,
                   lastCheck, result>>
    /\ UNCHANGED answered
    /\ UNCHANGED initSeen
    /\ UNCHANGED <<regVars, dedupVars, fpVars, sseVars>>

\* The loop is left: throw new Error('... timed out after ... seconds').
PollTimeout(p) ==
    /\ pc[p] = "loop"
    /\ ~LoopContinues(attempt[p], maxAttempts)
    /\ Resolve(p, Failure(MsgTimeout))
    /\ UNCHANGED <<tool, maxAttempts, callers, req, aborted, abortedAtCall, overlapped, attempt,
                   posts, statusReqs, inlineGets, sleeps, nInProgress, nTransient, nNotReady,
                   lastCheck>>
    /\ UNCHANGED answered
    /\ UNCHANGED initSeen
    /\ UNCHANGED <<regVars, dedupVars, fpVars, sseVars>>

\* Mutation: the catch block rethrows on every attempt.
CatchBlockRethrows(p, msg) == Resolve(p, Failure(msg)) /\ UNCHANGED sleeps

\* Mutation: the catch block never rethrows.
CatchBlockSwallows(p, msg) == StartSleep(p, PollInterval(tool))

\* The catch block of the loop body, entered with an error of message msg.
CatchBlock(p, msg) ==
    IF attempt[p] = maxAttempts - 1
    THEN Resolve(p, Failure(msg)) /\ UNCHANGED sleeps
    ELSE StartSleep(p, PollInterval(tool))

\* What the status check made of response r: a rejected fetch throws into
\* the catch block, a resolved one goes through the tool's adapter.
CheckOf(r) == IF r.net = "reject" THEN Throw(MsgNetwork) ELSE Classify(tool, r)

\* What the backend says with response r, read off the response itself: a
\* rejected fetch or a non-2xx answer is "transient"; a 2xx body says
\* "succeeded", "failed" or "inProgress" in the vocabulary of the tool's
\* backend.  Recorded for each status check; the poll loop does not read it.
BackendReport(t, r) ==
    IF r.net = "reject" \/ ~ResponseOk(r.http) THEN "transient"
    ELSE CASE t \in {"audio", "image"} ->
                IF r.status = "completed" THEN "succeeded"
                ELSE IF r.status = "failed" THEN "failed" ELSE "inProgress"
           [] t = "transcription" ->
                IF r.stage = "completed" /\ r.status = "success" THEN "succeeded"
                ELSE IF r.stage = "error" \/ r.status = "failed" THEN "failed"
                ELSE "inProgress"
           [] t = "scene" ->
                IF r.success = "true" /\ r.payload # Absent THEN "succeeded"
                ELSE IF r.success = "false" THEN "failed" ELSE "inProgress"
           [] t = "sceneInline" ->
                IF r.success = "true" /\ r.payload # Absent THEN "succeeded"
                ELSE IF r.success = "false" \/ r.error # Absent THEN "failed"
                ELSE IF r.status = "completed" THEN "succeeded"
                ELSE IF r.status = "failed" THEN "failed" ELSE "inProgress"
           [] OTHER -> "inProgress"

\* The record kept of the latest status check: what the backend said and the
\* parts of the response that decide the outcome; stage and status are kept
\* for the transcription tool, whose adapter reads both.
CheckRecord(t, r) ==
    [kind |-> BackendReport(t, r), error |-> r.error, net |-> r.net, http |-> r.http,
     success |-> r.success, payload |-> r.payload,
     stage |-> IF t = "transcription" THEN r.stage ELSE Absent,
     status |-> IF t = "transcription" THEN r.status ELSE Absent]

\* The status request of this iteration settles with r.
StatusResponse(p, r) ==
    /\ pc[p] = "status"
    /\ LET c == CheckOf(r) IN
         CASE c.act = "return" -> Resolve(p, ToolResultOf(tool, c)) /\ UNCHANGED sleeps
           [] c.act = "wait" -> StartSleep(p, c.ms)
           [] c.act = "throw" -> CatchBlock(p, c.error)
    /\ lastCheck' = [lastCheck EXCEPT ![p] = CheckRecord(tool, r)]
    /\ nInProgress' = [nInProgress EXCEPT ![p] = IF BackendReport(tool, r) = "inProgress" THEN @ + 1 ELSE @]
    /\ nTransient' = [nTransient EXCEPT ![p] = IF BackendReport(tool, r) = "transient" THEN @ + 1 ELSE @]
    /\ nNotReady' = [nNotReady EXCEPT ![p] = IF r.net = "resolve" /\ r.http = 400 THEN @ + 1 ELSE @]
    /\ UNCHANGED <<tool, maxAttempts, callers, req, aborted, abortedAtCall, overlapped, attempt,
                   posts, statusReqs, inlineGets>>
    /\ Settle(p)
    /\ UNCHANGED initSeen
    /\ UNCHANGED <<regVars, dedupVars, fpVars, sseVars>>

\* The timer of the sleep fires: the iteration ends.
SleepDone(p) ==
    /\ pc[p] = "sleep"
    /\ pc' = [pc EXCEPT ![p] = "loop"]
    /\ attempt' = [attempt EXCEPT ![p] = NextAttempt(@)]
    /\ sleepMs' = [sleepMs EXCEPT ![p] = 0]
    /\ UNCHANGED <<tool, maxAttempts, callers, req, aborted, abortedAtCall, overlapped, posts,
                   statusReqs, inlineGets, sleeps, nInProgress, nTransient, nNotReady, lastCheck,
                   result>>
    /\ UNCHANGED answered
    /\ UNCHANGED initSeen
    /\ UNCHANGED <<regVars, dedupVars, fpVars, sseVars>>

(***************************************************************************)
(* The single-request audio variant: its fetch is given the signal.        *)
(***************************************************************************)
\* The response to the request of the single-request variant.  A fetch whose
\* signal has fired has already rejected (FetchAborted).
SingleResponse(p, r) ==
    /\ tool = "audioSingle"
    /\ pc[p] = "submit"
    /\ ~aborted[p]
    /\ IF r.net = "reject" THEN Resolve(p, Failure(MsgNetwork))
       ELSE IF ~ResponseOk(r.http) THEN Resolve(p, Failure(MsgInitiate))
       ELSE IF r.status = "success" THEN Resolve(p, Success(r.payload))
       ELSE Resolve(p, Failure(OrDefault(r.error, MsgUnknown)))
    /\ UNCHANGED <<tool, maxAttempts, callers, req, aborted, abortedAtCall, overlapped, attempt,
                   posts, statusReqs, inlineGets, sleeps, nInProgress, nTransient, nNotReady,
                   lastCheck>>
    /\ Settle(p)
    /\ UNCHANGED initSeen
    /\ UNCHANGED <<regVars, dedupVars, fpVars, sseVars>>

\* The fetch that was given the signal rejects with an AbortError once the
\* signal has fired; execute's catch block reports it.
FetchAborted(p) ==
    /\ tool = "audioSingle"
    /\ pc[p] = "submit"
    /\ aborted[p]
    /\ Resolve(p, Failure(MsgAbortError))
    /\ UNCHANGED <<tool, maxAttempts, callers, req, aborted, abortedAtCall, overlapped, attempt,
                   posts, statusReqs, inlineGets, sleeps, nInProgress, nTransient, nNotReady,
                   lastCheck>>
    /\ Settle(p)
    /\ UNCHANGED initSeen
    /\ UNCHANGED <<regVars, dedupVars, fpVars, sseVars>>

(***************************************************************************)
(* The environment: the owner of the AbortController aborts the call.  An  *)
(* abort after execute has resolved has no effect on the call.             *)
(***************************************************************************)
Abort(p) ==
    /\ p \in callers
    /\ pc[p] # "done"
    /\ ~aborted[p]
    /\ aborted' = [aborted EXCEPT ![p] = TRUE]
    /\ UNCHANGED <<tool, maxAttempts, callers, req, pc, abortedAtCall, overlapped, attempt, posts,
                   statusReqs, inlineGets, sleeps, sleepMs, nInProgress, nTransient, nNotReady,
                   lastCheck, result>>
    /\ UNCHANGED answered
    /\ UNCHANGED initSeen
    /\ UNCHANGED <<regVars, dedupVars, fpVars, sseVars>>


(***************************************************************************)
(* Part II.  The AudioGenerationDeduplicator registry.                     *)
(***************************************************************************)
TASK_EXPIRY_MS == 10 * 60 * 1000
CLEANUP_INTERVAL_MS == 60 * 1000
\* The delay of the setTimeout that deletes a completed or failed task.
RETIRE_DELAY_MS == 5000

\* The clock stops after MaxSweeps cleanup intervals.
MaxSweeps == 11
MaxNow == MaxSweeps * CLEANUP_INTERVAL_MS + 1

\* The instants at which the registry is called: around the registration of
\* a task, around its expiry and at the first sweep after its expiry.
CallTimes == {0, 1, TASK_EXPIRY_MS, TASK_EXPIRY_MS + 1, TASK_EXPIRY_MS + CLEANUP_INTERVAL_MS}

TaskIds == {"t1", "t2"}

\* The (text, voice, instructions) of the calls to the registry.  Absent
\* instructions are the omitted optional argument.
RegRequests == [text : {"a", "b"}, voice : {"c"}, instructions : {Absent}]

\* crypto.createHash('sha256').update(content).digest('hex'): the digest is
\* taken to be collision free, so it is represented by its preimage.
Sha256(content) == <<"sha256", content>>

\* instructions || ''
InstructionsOrEmpty(i) == IF Truthy(i) THEN i ELSE ""

generateContentHash(text, voice, instructions) ==
    Sha256(text \o "|" \o voice \o "|" \o InstructionsOrEmpty(instructions))

\* findActiveTask returned null.
Null == [taskId |-> Absent, textHash |-> Absent, voice |-> Absent, startTime |-> 0,
         status |-> Absent]

\* The record of the latest operation: its name, the task id it was called
\* with, whether activeTasks held that id, and the statuses of the
\* records a sweep removed.
Op(name, id, found, removed) ==
    [op |-> name, id |-> id, found |-> found, removed |-> removed]

NoOp == Op("none", Absent, FALSE, {})

\* The module has been evaluated: its last statement has called getInstance,
\* which constructed the instance and started the cleanup interval.
InitRegistry ==
    /\ activeTasks = <<>>
    /\ now = 0
    /\ sweepDue = CLEANUP_INTERVAL_MS
    /\ retireTimers = {}
    /\ lastOp = NoOp
    /\ instance = 1
    /\ constructed = 1
    /\ cleanupTimer = "running"

\* activeTasks.has(taskId) and the position of the entry.
HasTask(tasks, id) == \E i \in 1..Len(tasks) : tasks[i].taskId = id
IndexOf(tasks, id) == CHOOSE i \in 1..Len(tasks) : tasks[i].taskId = id

\* Mutation: a task of age TASK_EXPIRY_MS still counts as active.
NotTooOldInclusive(age) == age <= TASK_EXPIRY_MS

\* The age test of findActiveTask: the task is not too old.
NotTooOld(age) == age < TASK_EXPIRY_MS

\* The status test of findActiveTask.
StatusIsActive(status) == status = "pending" \/ status = "processing"

\* The loop of findActiveTask from entry i on, in the Map's iteration order:
\* the first entry that passes the tests, null when the loop ends.
RECURSIVE FindFrom(_, _, _, _)
FindFrom(tasks, i, contentHash, at) ==
    IF i > Len(tasks) THEN Null
    ELSE IF /\ tasks[i].textHash = contentHash
            /\ StatusIsActive(tasks[i].status)
            /\ NotTooOld(at - tasks[i].startTime)
         THEN tasks[i]
         ELSE FindFrom(tasks, i + 1, contentHash, at)

findActiveTask(tasks, text, voice, instructions, at) ==
    FindFrom(tasks, 1, generateContentHash(text, voice, instructions), at)

\* activeTasks.set(taskId, task): a present key keeps its position.
MapSet(tasks, task) ==
    IF HasTask(tasks, task.taskId)
    THEN [tasks EXCEPT ![IndexOf(tasks, task.taskId)] = task]
    ELSE Append(tasks, task)

\* activeTasks.delete(taskId)
MapDelete(tasks, id) == SelectSeq(tasks, LAMBDA t : t.taskId # id)

\* Mutation: the record is registered as pending.
registerTaskPending(tasks, id, text, voice, instructions, at) ==
    MapSet(tasks, [taskId |-> id,
                   textHash |-> generateContentHash(text, voice, instructions),
                   voice |-> voice, startTime |-> at, status |-> "pending"])

\* registerTask
registerTask(tasks, id, text, voice, instructions, at) ==
    MapSet(tasks, [taskId |-> id,
                   textHash |-> generateContentHash(text, voice, instructions),
                   voice |-> voice, startTime |-> at, status |-> "processing"])

\* Mutation: a task of age TASK_EXPIRY_MS is swept already.
ExpiredInclusive(age) == age >= TASK_EXPIRY_MS

\* The age test of cleanupExpiredTasks.
Expired(age) == age > TASK_EXPIRY_MS

\* Mutation: the sweep keeps the records that are still processing.
cleanupExpiredTasksKeepsProcessing(tasks, at) ==
    SelectSeq(tasks, LAMBDA t : ~Expired(at - t.startTime) \/ t.status = "processing")

\* cleanupExpiredTasks
cleanupExpiredTasks(tasks, at) == SelectSeq(tasks, LAMBDA t : ~Expired(at - t.startTime))

\* getStats
getStats(tasks) ==
    [active |-> Len(tasks),
     pending |-> Cardinality({i \in 1..Len(tasks) : tasks[i].status = "pending"}),
     processing |-> Cardinality({i \in 1..Len(tasks) : tasks[i].status = "processing"})]

\* A caller of the registry calls registerTask.
RegisterTask(id, r) ==
    /\ now \in CallTimes
    /\ activeTasks' = registerTask(activeTasks, id, r.text, r.voice, r.instructions, now)
    /\ lastOp' = Op("register", id, HasTask(activeTasks, id), {})
    /\ UNCHANGED <<now, sweepDue, retireTimers, lifeVars>>
    /\ UNCHANGED <<callVars, dedupVars, fpVars, sseVars>>

\* Mutation: the deletion is scheduled whether the task is known or not.
updateTaskStatusAlwaysSchedules(tasks, timers, id, st, at) ==
    [tasks |-> IF HasTask(tasks, id)
               THEN [tasks EXCEPT ![IndexOf(tasks, id)].status = st]
               ELSE tasks,
     timers |-> timers \cup {[taskId |-> id, due |-> at + RETIRE_DELAY_MS]}]

\* updateTaskStatus: the Map and the pending deletion timeouts after the call.
updateTaskStatus(tasks, timers, id, st, at) ==
    IF HasTask(tasks, id)
    THEN [tasks |-> [tasks EXCEPT ![IndexOf(tasks, id)].status = st],
          timers |-> timers \cup {[taskId |-> id, due |-> at + RETIRE_DELAY_MS]}]
    ELSE [tasks |-> tasks, timers |-> timers]

\* A caller of the registry calls updateTaskStatus.
UpdateTaskStatus(id, st) ==
    /\ now \in CallTimes
    /\ activeTasks' = updateTaskStatus(activeTasks, retireTimers, id, st, now).tasks
    /\ retireTimers' = updateTaskStatus(activeTasks, retireTimers, id, st, now).timers
    /\ lastOp' = Op("update", id, HasTask(activeTasks, id), {})
    /\ UNCHANGED <<now, sweepDue, lifeVars>>
    /\ UNCHANGED <<callVars, dedupVars, fpVars, sseVars>>

\* A deletion timeout set by updateTaskStatus fires.
RetireFire(tm) ==
    /\ tm \in retireTimers
    /\ tm.due <= now
    /\ activeTasks' = MapDelete(activeTasks, tm.taskId)
    /\ retireTimers' = retireTimers \ {tm}
    /\ lastOp' = Op("retire", tm.taskId, HasTask(activeTasks, tm.taskId), {})
    /\ UNCHANGED <<now, sweepDue, lifeVars>>
    /\ UNCHANGED <<callVars, dedupVars, fpVars, sseVars>>

\* The cleanup interval fires.
CleanupFire ==
    /\ cleanupTimer = "running"
    /\ sweepDue <= now
    /\ activeTasks' = cleanupExpiredTasks(activeTasks, now)
    /\ sweepDue' = sweepDue + CLEANUP_INTERVAL_MS
    /\ lastOp' = Op("sweep", Absent, FALSE,
                    {activeTasks[i].status : i \in {j \in 1..Len(activeTasks) :
                        \A k \in 1..Len(activeTasks') : activeTasks'[k] # activeTasks[j]}})
    /\ UNCHANGED <<now, retireTimers, lifeVars>>
    /\ UNCHANGED <<callVars, dedupVars, fpVars, sseVars>>

\* The earliest pending timer.
NextDue ==
    LET dues == (IF cleanupTimer = "running" THEN {sweepDue} ELSE {}) \cup
                {tm.due : tm \in retireTimers} \cup {MaxNow}
    IN  CHOOSE d \in dues : \A e \in dues : d <= e

\* Time passes, up to the next call instant or the next timer, whichever
\* comes first: a timer fires when it is due.
AdvanceTo(t) ==
    /\ t > now
    /\ t <= NextDue
    /\ t <= MaxNow
    /\ now' = t
    /\ UNCHANGED <<activeTasks, sweepDue, retireTimers, lastOp, lifeVars>>
    /\ UNCHANGED <<callVars, dedupVars, fpVars, sseVars>>

\* new AudioGenerationDeduplicator(): a new Map, and the cleanup interval
\* is started.
Construct ==
    /\ instance' = constructed + 1
    /\ constructed' = constructed + 1
    /\ activeTasks' = <<>>
    /\ cleanupTimer' = "running"
    /\ sweepDue' = now + CLEANUP_INTERVAL_MS

\* Mutation: every call constructs an instance.
GetInstanceAlwaysConstructs ==
    /\ Construct
    /\ lastOp' = Op("getInstance", Absent, instance # 0, {})
    /\ UNCHANGED <<now, retireTimers>>
    /\ UNCHANGED <<callVars, dedupVars, fpVars, sseVars>>

\* getInstance: the instance is constructed when the static field is unset.
GetInstance ==
    /\ IF instance = 0
       THEN Construct
       ELSE UNCHANGED <<instance, constructed, activeTasks, cleanupTimer, sweepDue>>
    /\ lastOp' = Op("getInstance", Absent, instance # 0, {})
    /\ UNCHANGED <<now, retireTimers>>
    /\ UNCHANGED <<callVars, dedupVars, fpVars, sseVars>>

\* shutdown: the interval is cleared and the Map emptied; the deletion
\* timeouts stay pending and the static instance stays set.
Shutdown ==
    /\ now \in CallTimes
    /\ instance # 0
    /\ cleanupTimer' = "cleared"
    /\ activeTasks' = <<>>
    /\ lastOp' = Op("shutdown", Absent, FALSE, {})
    /\ UNCHANGED <<now, sweepDue, retireTimers, instance, constructed>>
    /\ UNCHANGED <<callVars, dedupVars, fpVars, sseVars>>

(***************************************************************************)
(* Callers of the registry.  No tool under src/ calls the registry; these  *)
(* callers follow the algorithm of the specification (compute the          *)
(* fingerprint, findActive, and when there is none submit, then register,  *)
(* poll, and update the state) on the registry's operations.               *)
(***************************************************************************)
\* The task id the backend assigns to the submission of caller c.
TaskIdOf(c) == IF c = "c1" THEN "t1" ELSE "t2"

InitDedup(reqSet) ==
    /\ dpc = [c \in Callers |-> "idle"]
    /\ dreq \in [Callers -> reqSet]
    /\ dposts = [c \in Callers |-> 0]

\* findActive; when there is no active task the submission request is issued.
DedupCheck(c) ==
    /\ dpc[c] = "idle"
    /\ IF findActiveTask(activeTasks, dreq[c].text, dreq[c].voice, dreq[c].instructions, now) # Null
       THEN dpc' = [dpc EXCEPT ![c] = "attached"] /\ UNCHANGED dposts
       ELSE /\ dpc' = [dpc EXCEPT ![c] = "submitting"]
            /\ dposts' = [dposts EXCEPT ![c] = @ + 1]
    /\ UNCHANGED <<dreq, callVars, regVars, fpVars, sseVars>>

\* The submission is answered with the task id; the caller registers it.
DedupRegister(c) ==
    /\ dpc[c] = "submitting"
    /\ activeTasks' = registerTask(activeTasks, TaskIdOf(c), dreq[c].text, dreq[c].voice,
                                   dreq[c].instructions, now)
    /\ lastOp' = Op("register", TaskIdOf(c), HasTask(activeTasks, TaskIdOf(c)), {})
    /\ dpc' = [dpc EXCEPT ![c] = "polling"]
    /\ UNCHANGED <<dreq, dposts, now, sweepDue, retireTimers, lifeVars, callVars, fpVars, sseVars>>

\* The poll has ended; the caller updates the state of its task.
DedupFinish(c, st) ==
    /\ dpc[c] = "polling"
    /\ activeTasks' = updateTaskStatus(activeTasks, retireTimers, TaskIdOf(c), st, now).tasks
    /\ retireTimers' = updateTaskStatus(activeTasks, retireTimers, TaskIdOf(c), st, now).timers
    /\ lastOp' = Op("update", TaskIdOf(c), HasTask(activeTasks, TaskIdOf(c)), {})
    /\ dpc' = [dpc EXCEPT ![c] = "done"]
    /\ UNCHANGED <<dreq, dposts, now, sweepDue, lifeVars, callVars, fpVars, sseVars>>

(***************************************************************************)
(* The fingerprint of a request, computed as findActiveTask and            *)
(* registerTask compute it: from the text, the voice and the instructions. *)
(***************************************************************************)
\* Requests that differ in the text or in a capability parameter.
FpRequests == [text : {"a", "a|b"}, voice : {"c", "b|c"}, language : {"en", "es"},
               instructions : {Absent, "", "x"}]

InitFingerprint(reqSet) ==
    /\ fpReq \in [1..2 -> reqSet]
    /\ fpHash = [k \in 1..2 |-> Absent]

\* The fingerprint of request k is computed: generateContentHash takes its
\* text, voice and instructions.
GenerateContentHash(k) ==
    /\ fpHash[k] = Absent
    /\ fpHash' = [fpHash EXCEPT ![k] = generateContentHash(fpReq[k].text, fpReq[k].voice,
                                                           fpReq[k].instructions)]
    /\ UNCHANGED <<fpReq, callVars, regVars, dedupVars, sseVars>>

(***************************************************************************)
(* CodeAssistServer.streamEndpoint: the generator over the lines of the    *)
(* server-sent stream.                                                     *)
(***************************************************************************)
\* The longest stream.
MaxLines == 4

\* The lines: a blank line, two data lines (the second with white space
\* around its payload) and a line that is neither.
Lines == {"", "data: a", "data:  b ", ": ping"}

\* line.startsWith('data: ') and line.slice(6).trim()
StartsWithData(line) == line \in {"data: a", "data:  b "}
SliceTrim(line) == IF line = "data: a" THEN "a" ELSE "b"

\* bufferedLines.join('\n')
RECURSIVE Join(_)
Join(ls) ==
    IF Len(ls) = 0 THEN ""
    ELSE IF Len(ls) = 1 THEN ls[1]
    ELSE ls[1] \o "\n" \o Join(Tail(ls))

\* JSON.parse(text): the event is represented by the text it is parsed from.
JsonParse(text) == <<"json", text>>

Streams == UNION {[1..n -> Lines] : n \in 0..MaxLines}

InitStream(streamSet) ==
    /\ stream \in streamSet
    /\ pos = 0
    /\ bufferedLines = <<>>
    /\ yielded = <<>>
    /\ spc = "reading"

\* Mutation: a blank line yields whatever is buffered, nothing included.
ReadLineYieldsOnEveryBlank ==
    /\ spc = "reading"
    /\ pos < Len(stream)
    /\ pos' = pos + 1
    /\ LET line == stream[pos + 1] IN
         IF line = "" THEN
              /\ yielded' = Append(yielded, JsonParse(Join(bufferedLines)))
              /\ bufferedLines' = <<>>
              /\ UNCHANGED spc
         ELSE IF StartsWithData(line) THEN
              /\ bufferedLines' = Append(bufferedLines, SliceTrim(line))
              /\ UNCHANGED <<yielded, spc>>
         ELSE /\ spc' = "thrown"
              /\ UNCHANGED <<bufferedLines, yielded>>
    /\ UNCHANGED stream
    /\ UNCHANGED <<callVars, regVars, dedupVars, fpVars>>

\* One iteration of for await (const line of rl).
ReadLine ==
    /\ spc = "reading"
    /\ pos < Len(stream)
    /\ pos' = pos + 1
    /\ LET line == stream[pos + 1] IN
         IF line = "" THEN
              IF Len(bufferedLines) = 0
              THEN UNCHANGED <<bufferedLines, yielded, spc>>
              ELSE /\ yielded' = Append(yielded, JsonParse(Join(bufferedLines)))
                   /\ bufferedLines' = <<>>
                   /\ UNCHANGED spc
         ELSE IF StartsWithData(line) THEN
              /\ bufferedLines' = Append(bufferedLines, SliceTrim(line))
              /\ UNCHANGED <<yielded, spc>>
         ELSE /\ spc' = "thrown"
              /\ UNCHANGED <<bufferedLines, yielded>>
    /\ UNCHANGED stream
    /\ UNCHANGED <<callVars, regVars, dedupVars, fpVars>>

\* The stream has ended: the loop is left and the generator returns.
StreamEnd ==
    /\ spc = "reading"
    /\ pos = Len(stream)
    /\ spc' = "ended"
    /\ UNCHANGED <<stream, pos, bufferedLines, yielded>>
    /\ UNCHANGED <<callVars, regVars, dedupVars, fpVars>>

\* The task id the backend returns for a submission of the audio tool.
CallTaskId == "T"

\* The caller of execute registers the task of call p once the submission has
\* returned its task id, as the algorithm of the specification does after the
\* submission.
HostRegister(p) ==
    /\ p \in callers
    /\ tool = "audio"
    /\ pc[p] \in {"loop", "status", "sleep"}
    /\ ~HasTask(activeTasks, CallTaskId)
    /\ activeTasks' = registerTask(activeTasks, CallTaskId, req[p].text, req[p].voice,
                                   Absent, now)
    /\ lastOp' = Op("register", CallTaskId, FALSE, {})
    /\ UNCHANGED <<now, sweepDue, retireTimers, lifeVars, callVars, dedupVars, fpVars, sseVars>>

(***************************************************************************)
(* Specifications.                                                         *)
(***************************************************************************)
ValidRequests == {r \in RequestsOf("audio") : validateToolParams("audio", r) = Absent}

\* Spec: one call of any of the tools.
Init ==
    /\ InitCalls(Tools, {"c1"}, MaxAttempts, Requests)
    /\ InitRegistry
    /\ InitDedup({CHOOSE r \in RegRequests : TRUE})
    /\ InitFingerprint({CHOOSE r \in FpRequests : TRUE})
    /\ InitStream({<<>>})

Next ==
    \/ \E p \in Callers : execute(p)
    \/ \E p \in Callers, s \in SubmitResponses : SubmitResponse(p, s)
    \/ \E p \in Callers, s \in SubmitResponses : StartResponse(p, s)
    \/ \E p \in Callers, r \in ResponsesOf(tool) : InlineResponse(p, r)
    \/ \E p \in Callers : PollCancelled(p)
    \/ \E p \in Callers : PollRequest(p)
    \/ \E p \in Callers : PollTimeout(p)
    \/ \E p \in Callers, r \in ResponsesOf(tool) : StatusResponse(p, r)
    \/ \E p \in Callers : SleepDone(p)
    \/ \E p \in Callers, r \in ResponsesOf(tool) : SingleResponse(p, r)
    \/ \E p \in Callers : FetchAborted(p)
    \/ \E p \in Callers : Abort(p)

Spec == Init /\ [][Next]_vars

\* SpecConc: two concurrent calls of the audio tool.
InitConc ==
    /\ InitCalls({"audio"}, {"c1", "c2"}, MaxAttemptsConc, ValidRequests)
    /\ InitRegistry
    /\ InitDedup({CHOOSE r \in RegRequests : TRUE})
    /\ InitFingerprint({CHOOSE r \in FpRequests : TRUE})
    /\ InitStream({<<>>})

NextConc ==
    \/ \E p \in Callers : execute(p)
    \/ \E p \in Callers, s \in SubmitResponses : SubmitResponse(p, s)
    \/ \E p \in Callers : PollCancelled(p)
    \/ \E p \in Callers : PollRequest(p)
    \/ \E p \in Callers : PollTimeout(p)
    \/ \E p \in Callers, r \in ResponsesOf(tool) : StatusResponse(p, r)
    \/ \E p \in Callers : SleepDone(p)
    \/ \E p \in Callers : Abort(p)

SpecConc == InitConc /\ [][NextConc]_vars

\* SpecHost: one call of the audio tool whose caller registers the task.
InitHost ==
    /\ InitCalls({"audio"}, {"c1"}, MaxAttemptsConc, ValidRequests)
    /\ InitRegistry
    /\ InitDedup({CHOOSE r \in RegRequests : TRUE})
    /\ InitFingerprint({CHOOSE r \in FpRequests : TRUE})
    /\ InitStream({<<>>})

NextHost ==
    \/ \E p \in Callers : execute(p)
    \/ \E p \in Callers, s \in SubmitResponses : SubmitResponse(p, s)
    \/ \E p \in Callers : HostRegister(p)
    \/ \E p \in Callers : PollCancelled(p)
    \/ \E p \in Callers : PollRequest(p)
    \/ \E p \in Callers : PollTimeout(p)
    \/ \E p \in Callers, r \in ResponsesOf(tool) : StatusResponse(p, r)
    \/ \E p \in Callers : SleepDone(p)
    \/ \E p \in Callers : Abort(p)

SpecHost == InitHost /\ [][NextHost]_vars

\* SpecRegistry: the registry, called at the call instants, with its clock
\* and timers.
NoCalls == InitCalls({"audio"}, {}, 1, {CHOOSE r \in ValidRequests : TRUE})

InitReg ==
    /\ NoCalls
    /\ InitRegistry
    /\ InitDedup({CHOOSE r \in RegRequests : TRUE})
    /\ InitFingerprint({CHOOSE r \in FpRequests : TRUE})
    /\ InitStream({<<>>})

NextRegistry ==
    \/ \E id \in TaskIds, r \in RegRequests : RegisterTask(id, r)
    \/ \E id \in TaskIds, st \in {"completed", "failed"} : UpdateTaskStatus(id, st)
    \/ \E tm \in retireTimers : RetireFire(tm)
    \/ CleanupFire
    \/ Shutdown
    \/ \E t \in CallTimes \cup {NextDue} : AdvanceTo(t)

SpecRegistry == InitReg /\ [][NextRegistry]_vars

\* SpecSingleton: the registry from before the module is evaluated, whose
\* last statement is the first call of getInstance.
InitSingleton ==
    /\ NoCalls
    /\ activeTasks = <<>>
    /\ now = 0
    /\ sweepDue = 0
    /\ retireTimers = {}
    /\ lastOp = NoOp
    /\ instance = 0
    /\ constructed = 0
    /\ cleanupTimer = "none"
    /\ InitDedup({CHOOSE r \in RegRequests : TRUE})
    /\ InitFingerprint({CHOOSE r \in FpRequests : TRUE})
    /\ InitStream({<<>>})

NextSingleton ==
    \/ GetInstance
    \/ instance # 0 /\ NextRegistry

SpecSingleton == InitSingleton /\ [][NextSingleton]_vars

\* SpecStream: the generator of streamEndpoint on every stream of at most
\* MaxLines lines.
InitSse ==
    /\ NoCalls
    /\ InitRegistry
    /\ InitDedup({CHOOSE r \in RegRequests : TRUE})
    /\ InitFingerprint({CHOOSE r \in FpRequests : TRUE})
    /\ InitStream(Streams)

NextSse == ReadLine \/ StreamEnd

SpecStream == InitSse /\ [][NextSse]_vars

\* SpecFingerprint: the fingerprints of two requests.
InitFp ==
    /\ NoCalls
    /\ InitRegistry
    /\ InitDedup({CHOOSE r \in RegRequests : TRUE})
    /\ InitFingerprint(FpRequests)
    /\ InitStream({<<>>})

NextFp == \E k \in 1..2 : GenerateContentHash(k)

SpecFingerprint == InitFp /\ [][NextFp]_vars

\* SpecDedup: two callers that consult the registry, with the registry's
\* clock and timers.
InitDedupSpec ==
    /\ NoCalls
    /\ InitRegistry
    /\ InitDedup(RegRequests)
    /\ InitFingerprint({CHOOSE r \in FpRequests : TRUE})
    /\ InitStream({<<>>})

NextDedup ==
    \/ \E c \in Callers : DedupCheck(c)
    \/ \E c \in Callers : DedupRegister(c)
    \/ \E c \in Callers, st \in {"completed", "failed"} : DedupFinish(c, st)
    \/ \E tm \in retireTimers : RetireFire(tm)
    \/ CleanupFire
    \/ \E t \in CallTimes \cup {NextDue} : AdvanceTo(t)

SpecDedup == InitDedupSpec /\ [][NextDedup]_vars

(***************************************************************************)
(* Claims.                                                                 *)
(***************************************************************************)
\* The call has entered execute and has not resolved yet.
Running(p) == pc[p] \notin {"idle", "done"}

Valid(p) == validateToolParams(tool, req[p]) = Absent

\* C1 (SpecConc): two concurrent execute calls with identical (text, voice,
\* language) make at most one submission request between them.
C1_AtMostOneSubmission ==
    \A p, q \in callers :
        (p # q /\ req[p] = req[q] /\ Running(p) /\ Running(q)) => posts[p] + posts[q] <= 1

\* C2 (SpecDedup): whatever the interleaving of callers that run findActive
\* and, on none, submit and then register, the registry never holds two
\* pending or processing records with the same fingerprint.
C2_NoTwoActiveSameFingerprint ==
    \A i, j \in 1..Len(activeTasks) :
        (i # j /\ StatusIsActive(activeTasks[i].status) /\ StatusIsActive(activeTasks[j].status))
            => activeTasks[i].textHash # activeTasks[j].textHash

\* C3 (SpecRegistry): findActiveTask returns a record if and only if the
\* registry holds a record with the query's fingerprint, in status pending or
\* processing, of age strictly less than TASK_EXPIRY_MS; the record returned
\* is such a record, so a record is never returned once now - startTime has
\* reached TASK_EXPIRY_MS, swept or not.
C3_FindActiveIffActiveUnexpired ==
    \A r \in RegRequests :
        LET found == findActiveTask(activeTasks, r.text, r.voice, r.instructions, now)
            h == generateContentHash(r.text, r.voice, r.instructions)
            Qualifies(task) ==
                /\ task.textHash = h
                /\ task.status \in {"pending", "processing"}
                /\ now - task.startTime < TASK_EXPIRY_MS
        IN  /\ (found # Null) <=> (\E i \in 1..Len(activeTasks) : Qualifies(activeTasks[i]))
            /\ found # Null =>
                  /\ \E i \in 1..Len(activeTasks) : activeTasks[i] = found
                  /\ Qualifies(found)

\* C3 witness: the registry holds a processing record that has reached its
\* expiry and is not swept, which findActiveTask does not return, next to a
\* younger record that it does return.
C3_Witness ==
    \E r1, r2 \in RegRequests :
        /\ \E i \in 1..Len(activeTasks) :
              /\ activeTasks[i].textHash = generateContentHash(r1.text, r1.voice, r1.instructions)
              /\ activeTasks[i].status = "processing"
              /\ now - activeTasks[i].startTime >= TASK_EXPIRY_MS
        /\ findActiveTask(activeTasks, r1.text, r1.voice, r1.instructions, now) = Null
        /\ findActiveTask(activeTasks, r2.text, r2.voice, r2.instructions, now) # Null

\* C4 (Spec): when every status check of a call reported in-progress and the
\* call was not cancelled, the call has failed with the timeout error after
\* exactly maxAttempts status checks; and a timeout is only ever reported
\* after exactly maxAttempts status checks.
C4_TimeoutAfterExactlyMaxAttempts ==
    \A p \in callers :
        /\ (/\ pc[p] = "done"
            /\ statusReqs[p] > 0
            /\ nInProgress[p] = statusReqs[p]
            /\ result[p].error # MsgCancelled)
              => (result[p] = Failure(MsgTimeout) /\ statusReqs[p] = maxAttempts)
        /\ result[p].error = MsgTimeout => statusReqs[p] = maxAttempts

\* C4 witness: an audio call with maxAttempts >= 2 has timed out after
\* in-progress answers only.
C4_Witness ==
    \E p \in callers :
        /\ tool = "audio" /\ maxAttempts >= 2 /\ pc[p] = "done"
        /\ nInProgress[p] = maxAttempts /\ statusReqs[p] = maxAttempts
        /\ result[p] = Failure(MsgTimeout)

\* C5 (Spec): in every poll loop the number of status requests of a call
\* never exceeds maxAttempts, and every status check, whatever its outcome,
\* uses up one attempt: the requests issued are the attempts completed plus
\* the one in progress, and once maxAttempts requests have been issued the
\* loop head can only leave the loop.
C5_OneAttemptPerStatusRequest ==
    \A p \in callers :
        /\ statusReqs[p] <= maxAttempts
        /\ nInProgress[p] + nTransient[p] <= statusReqs[p]
        /\ pc[p] = "loop" => statusReqs[p] = attempt[p]
        /\ pc[p] \in {"status", "sleep"} => statusReqs[p] = attempt[p] + 1
        /\ (pc[p] = "loop" /\ statusReqs[p] = maxAttempts)
              => (ENABLED PollTimeout(p) /\ ~ENABLED PollRequest(p))

\* C5 witness: a scene-timing poll whose checks mixed non-2xx answers and
\* in-progress answers has ended by timeout with maxAttempts requests.
C5_Witness ==
    \E p \in callers :
        /\ tool \in {"scene", "sceneInline"} /\ pc[p] = "done"
        /\ nTransient[p] >= 1 /\ nInProgress[p] >= 1
        /\ statusReqs[p] = maxAttempts /\ result[p] = Failure(MsgTimeout)

\* C6 (Spec): when the signal fires while the audio poll loop sleeps, the call
\* resolves as cancelled in that very step, without waiting for the timer.
C6_AbortInterruptsSleep ==
    [][\A p \in Callers :
          (tool = "audio" /\ pc[p] = "sleep" /\ ~aborted[p] /\ aborted'[p])
             => (pc'[p] = "done" /\ result'[p] = Failure(MsgCancelled))]_vars

\* C7 (Spec): an audio call whose signal was aborted before it returned never ends
\* in success, in the timeout error or in the failure of the backend task.
C7_AbortedNeverTimeoutFailedOrSuccess ==
    \A p \in callers :
        (tool = "audio" /\ pc[p] = "done" /\ aborted[p] /\ Valid(p)) =>
            /\ ~result[p].success
            /\ result[p].error # MsgTimeout
            /\ ~(lastCheck[p].kind = "failed" /\ result[p].error # MsgCancelled)

\* C8 (Spec): when the signal is already aborted as execute is called with
\* valid parameters, no request is issued and the result is the failure that
\* reports the cancellation.
C8_AbortedAtCallNoRequest ==
    \A p \in callers :
        (abortedAtCall[p] /\ Valid(p) /\ pc[p] # "idle") =>
            /\ pc[p] = "done"
            /\ posts[p] = 0 /\ statusReqs[p] = 0 /\ inlineGets[p] = 0
            /\ result[p] = Failure(MsgCancelled)

\* C8 witness: an audio call with valid parameters was made with the signal
\* already aborted and has resolved.
C8_Witness ==
    \E p \in callers :
        tool = "audio" /\ abortedAtCall[p] /\ Valid(p) /\ pc[p] = "done"

\* C9 (Spec): once the signal has fired while a submission or status request
\* of an audio call is awaiting its response, the call does not consume the
\* response: its next step is to resolve as cancelled.
C9_AbortCancelsRequestInFlight ==
    [][\A p \in Callers :
          (tool \in {"audio", "audioSingle"} /\ pc[p] \in InFlight /\ aborted[p] /\ pc'[p] # pc[p])
             => (pc'[p] = "done" /\ result'[p].error \in {MsgCancelled, MsgAbortError})]_vars

\* C10 (Spec): once a status check has reported the backend task as failed,
\* the call has resolved with a failure that carries the backend's error (the
\* default message when the body has none); no sleep followed that check, and
\* as the call has resolved no further status request is issued.
C10_FailedEndsPollAtOnce ==
    \A p \in callers :
        lastCheck[p].kind = "failed" =>
            /\ pc[p] = "done"
            /\ result[p] = Failure(OrDefault(lastCheck[p].error, MsgDefaultFailed))
            /\ sleeps[p] = statusReqs[p] - 1
            /\ statusReqs[p] = attempt[p] + 1

\* C10 witness: the first status check of a poll with attempts to spare
\* reported failed with a backend error.
C10_Witness ==
    \E p \in callers :
        /\ lastCheck[p].kind = "failed" /\ lastCheck[p].error \in BackendErrors
        /\ statusReqs[p] = 1 /\ maxAttempts >= 2 /\ pc[p] = "done"

\* The outcome execute reports for the terminal status of the latest check:
\* the backend's error (or the default message) for a failed task, the
\* payload for a completed one.  The scene-timing variant with the legacy
\* status field may take its payload from another field, and a completed
\* task without payload is reported as the unknown error.
TerminalOutcomeReported(p) ==
    IF lastCheck[p].kind = "failed"
    THEN result[p] = Failure(OrDefault(lastCheck[p].error, MsgDefaultFailed))
    ELSE IF tool # "sceneInline" /\ lastCheck[p].payload \in {"P1", "P2"}
         THEN result[p] = Success(lastCheck[p].payload)
         ELSE result[p].success \/ result[p] = Failure(MsgUnknown)

\* C11 (Spec): a transient error (rejected fetch, non-OK status) on an attempt
\* other than the last never ends the poll (the call goes on, or is cancelled
\* at a later loop head); k < maxAttempts transient errors followed by a
\* terminal status make the call report exactly that terminal outcome; and
\* the error of a status check is only ever reported when it came on the last
\* attempt.
C11_TransientErrorsRetried ==
    \A p \in callers :
        /\ (lastCheck[p].kind = "transient" /\ statusReqs[p] < maxAttempts)
              => (pc[p] # "done" \/ result[p] = Failure(MsgCancelled))
        /\ (/\ statusReqs[p] >= 2
            /\ nTransient[p] = statusReqs[p] - 1
            /\ lastCheck[p].kind \in {"succeeded", "failed"})
              => (pc[p] = "done" /\ TerminalOutcomeReported(p))
        /\ (statusReqs[p] >= 1 /\ result[p].error \in {MsgNetwork, MsgCheckStatus})
              => (statusReqs[p] = maxAttempts /\ lastCheck[p].kind = "transient")

\* C11 witness: an audio call whose first two status checks met transient
\* errors and whose third reported completed has succeeded.
C11_Witness ==
    \E p \in callers :
        /\ tool = "audio" /\ pc[p] = "done" /\ result[p].success
        /\ nTransient[p] = 2 /\ statusReqs[p] = 3 /\ lastCheck[p].kind = "succeeded"

LastTransientError(p) ==
    IF lastCheck[p].net = "reject" THEN MsgNetwork
    ELSE IF tool = "sceneInline" THEN MsgTimeout
    ELSE IF tool = "scene" /\ lastCheck[p].http = 400 THEN MsgTimeout
    ELSE MsgCheckStatus

C13_FirstSuccessShortCircuits ==
    \A p \in callers :
        (statusReqs[p] = 1 /\ lastCheck[p].kind = "succeeded") =>
            /\ pc[p] = "done"
            /\ sleeps[p] = 0
            /\ attempt[p] = 0
            /\ TerminalOutcomeReported(p)

\* C13 witness: a scene-timing call with attempts to spare has succeeded on
\* its first status check.
C13_Witness ==
    \E p \in callers :
        /\ tool = "scene" /\ maxAttempts >= 2 /\ pc[p] = "done"
        /\ statusReqs[p] = 1 /\ sleeps[p] = 0 /\ lastCheck[p].kind = "succeeded"
        /\ result[p].success

C15_TerminalStateIsFinal ==
    [][\A i \in 1..Len(activeTasks) : \A j \in 1..Len(activeTasks') :
          (/\ lastOp'.op = "update"
           /\ activeTasks[i].status \in {"completed", "failed"}
           /\ activeTasks'[j].taskId = activeTasks[i].taskId)
             => activeTasks'[j].status = activeTasks[i].status]_vars

\* C16 (SpecRegistry): registerTask creates a processing record for a task id
\* that is absent, and leaves the registry as it is when a record with that
\* task id is present: the fingerprint, the creation time and the status of
\* the existing record are unchanged.
C16_RegisterRejectsPresentTaskId ==
    [][(lastOp'.op = "register" /\ lastOp' # lastOp) =>
          IF HasTask(activeTasks, lastOp'.id)
          THEN activeTasks' = activeTasks
          ELSE /\ Len(activeTasks') = Len(activeTasks) + 1
               /\ activeTasks'[Len(activeTasks')].taskId = lastOp'.id
               /\ activeTasks'[Len(activeTasks')].status = "processing"]_vars

\* C19 (SpecRegistry): updateTaskStatus for a task id that the registry does
\* not hold changes neither the records nor the pending deletions.
C19_UpdateOfAbsentTaskIsNoOp ==
    [][\A id \in TaskIds :
          (/\ ~HasTask(activeTasks, id)
           /\ lastOp' = Op("update", id, FALSE, {}))
             => (activeTasks' = activeTasks /\ retireTimers' = retireTimers)]_vars

\* C19 witness: updateTaskStatus has been called for a task id that was
\* retired, while the registry holds another record and no deletion is
\* pending.
C19_Witness ==
    /\ lastOp.op = "update" /\ ~lastOp.found
    /\ ~HasTask(activeTasks, lastOp.id)
    /\ Len(activeTasks) = 1
    /\ retireTimers = {}
    /\ now > RETIRE_DELAY_MS

\* C20 (SpecRegistry): a firing of the cleanup interval removes exactly the
\* records with now - startTime > TASK_EXPIRY_MS, whatever their status, and
\* keeps every other record as it is, in its place; the pending deletions are
\* untouched.
C20_SweepRemovesExactlyExpired ==
    [][sweepDue' # sweepDue =>
          LET kept == {i \in 1..Len(activeTasks) :
                          now - activeTasks[i].startTime <= TASK_EXPIRY_MS}
          IN  /\ Len(activeTasks') = Cardinality(kept)
              /\ \A i \in 1..Len(activeTasks) :
                    i \in kept <=> \E j \in 1..Len(activeTasks') : activeTasks'[j] = activeTasks[i]
              /\ \A j, k \in 1..Len(activeTasks') :
                    j < k => IndexOf(activeTasks, activeTasks'[j].taskId)
                                < IndexOf(activeTasks, activeTasks'[k].taskId)
              /\ retireTimers' = retireTimers]_vars

\* C20 witness: a sweep has removed a completed record whose deletion was
\* still pending and has kept the other record.
C20_Witness ==
    /\ lastOp.op = "sweep"
    /\ "completed" \in lastOp.removed
    /\ Len(activeTasks) = 1
    /\ retireTimers # {}

\* C17 (SpecHost): when a call whose task was registered has ended in an
\* error, the task's record is failed and findActiveTask for the call's
\* content no longer returns a task.
C17_ErrorMarksTaskFailed ==
    \A p \in callers :
        (pc[p] = "done" /\ ~result[p].success /\ HasTask(activeTasks, CallTaskId)) =>
            /\ activeTasks[IndexOf(activeTasks, CallTaskId)].status = "failed"
            /\ findActiveTask(activeTasks, req[p].text, req[p].voice, Absent, now) = Null

\* C18 (SpecConc): two calls of the audio tool with identical params that ran
\* concurrently, neither of them cancelled, have resolved to the same result.
C18_ConcurrentCallsSameResult ==
    \A p, q \in callers :
        (/\ p # q /\ req[p] = req[q]
         /\ overlapped[p] \/ overlapped[q]
         /\ pc[p] = "done" /\ pc[q] = "done"
         /\ ~aborted[p] /\ ~aborted[q])
            => result[p] = result[q]

\* The request of call p is one that the validation of its tool must
\* reject, stated on the parameters themselves.
InvalidInput(p) ==
    \/ req[p].text = ""
    \/ tool \in {"audio", "image"} /\ req[p].text \in {"   ", LongText}
    \/ tool = "audio" /\ (req[p].voice = "bogus" \/ req[p].language = "xx")
    \/ tool = "image" /\ req[p].aspect_ratio = "circle"

\* C24 (Spec): a call whose input is invalid (empty or white-space text, a
\* text above the ceiling, a voice, language or aspect ratio outside the
\* allowed set) ends at once in a validation failure: no request of any
\* kind is issued for it and the task registry is left as it was.
C24_InvalidInputFailsBeforeAnyRequest ==
    \A p \in callers :
        (pc[p] # "idle" /\ InvalidInput(p)) =>
            /\ pc[p] = "done"
            /\ result[p].success = FALSE
            /\ result[p].error = MsgValidation
            /\ posts[p] = 0 /\ statusReqs[p] = 0 /\ inlineGets[p] = 0
            /\ activeTasks = << >> /\ lastOp = NoOp

C24_Witness ==
    \E p \in callers :
        /\ tool = "audio" /\ req[p].voice = "bogus" /\ req[p].text = "Hello world"
        /\ pc[p] = "done" /\ result[p].error = MsgValidation

\* The requests of call p that are in flight.
InFlightCount(p) == posts[p] + inlineGets[p] + statusReqs[p] - answered[p]

\* The submissions a call has made by the time it polls.
SubmitCount == IF tool = "transcription" THEN 2 ELSE 1

\* C25 (Spec): the requests of one call are strictly sequential: at most one
\* is in flight, a status request is only issued when every submission
\* request (create session then start, for transcription) and every earlier
\* status request has been answered.
C25_RequestsAreSequential ==
    \A p \in callers :
        /\ InFlightCount(p) \in {0, 1}
        /\ InFlightCount(p) = 1 <=> pc[p] \in InFlight
        /\ pc[p] = "submit" => (posts[p] = 1 /\ statusReqs[p] = 0 /\ answered[p] = 0)
        /\ pc[p] = "start" => (posts[p] = 2 /\ statusReqs[p] = 0 /\ answered[p] = 1)
        /\ statusReqs[p] >= 1 =>
              /\ posts[p] = SubmitCount
              /\ answered[p] >= posts[p] + inlineGets[p] + statusReqs[p] - 1

C25_Witness ==
    \E p \in callers :
        /\ tool = "transcription"
        /\ pc[p] = "status"
        /\ posts[p] = 2 /\ statusReqs[p] = 2 /\ answered[p] = 3

\* The poll of call p returned a completed task: its last status check
\* reported success, or (sceneInline) the submission was answered
\* 'completed' and the inline result request delivered the result.
PollReturnedCompleted(p) ==
    \/ lastCheck[p].kind = "succeeded"
    \/ tool = "sceneInline" /\ inlineGets[p] = 1 /\ statusReqs[p] = 0

C28_AudioPollBudgetIsTwoMinutes ==
    tool = "audio" =>
        /\ PollInterval(tool) = 2 * 1000
        /\ AudioMaxAttempts * PollInterval(tool) = 120 * 1000

\* C29 (Spec): while the poll loop sleeps after a status check that ended in
\* a transient error (rejected fetch or 5xx response) the wait is at least
\* twice the poll interval, and after an in-progress report it is the poll
\* interval.
C29_TransientErrorBacksOff ==
    \A p \in callers :
        (tool \in PollingTools /\ pc[p] = "sleep") =>
            /\ lastCheck[p].kind = "transient" => sleepMs[p] >= 2 * PollInterval(tool)
            /\ lastCheck[p].kind = "inProgress" => sleepMs[p] = PollInterval(tool)

\* C30 (Spec): a poll of the audio or scene tool that times out after its
\* final check reported in-progress has made maxAttempts checks and slept
\* maxAttempts - 1 times: it does not sleep after the final check.
C30_NoSleepAfterFinalCheck ==
    \A p \in callers :
        (/\ tool \in {"audio", "scene"}
         /\ pc[p] = "done"
         /\ result[p].error = MsgTimeout
         /\ nInProgress[p] = maxAttempts) =>
            /\ statusReqs[p] = maxAttempts
            /\ sleeps[p] = maxAttempts - 1

\* C30 amended (Spec): a poll that times out after maxAttempts in-progress
\* checks has made maxAttempts checks and slept maxAttempts times: the poll
\* interval is also awaited after the final check, before the Timeout.
C30_SleepsAfterEveryInProgressCheck ==
    \A p \in callers :
        (/\ tool \in PollingTools
         /\ pc[p] = "done"
         /\ result[p].error = MsgTimeout
         /\ nInProgress[p] = maxAttempts) =>
            /\ statusReqs[p] = maxAttempts
            /\ sleeps[p] = maxAttempts

C30_Witness ==
    \E p \in callers :
        /\ tool = "audio" /\ maxAttempts = 3
        /\ pc[p] = "done" /\ result[p].error = MsgTimeout
        /\ nInProgress[p] = 3 /\ sleeps[p] = 3

\* The records of the registry that qualify as active for request r now.
QualifyingFor(r) ==
    {i \in 1..Len(activeTasks) :
        /\ activeTasks[i].textHash = generateContentHash(r.text, r.voice, r.instructions)
        /\ activeTasks[i].status \in {"pending", "processing"}
        /\ now - activeTasks[i].startTime < TASK_EXPIRY_MS}

\* C26 (SpecRegistry): when several records qualifying as active share the
\* queried fingerprint, findActiveTask returns the one with the greatest
\* startTime.
C26_FindActiveReturnsMostRecent ==
    \A r \in RegRequests :
        QualifyingFor(r) # {} =>
            \A i \in QualifyingFor(r) :
                activeTasks[i].startTime <=
                    findActiveTask(activeTasks, r.text, r.voice, r.instructions, now).startTime

\* The pending deletion timeouts of task id, and the instant at which the
\* retirement delay after its latest update has elapsed.
TimersOf(id) == {tm \in retireTimers : tm.taskId = id}
RetireDue(id) == CHOOSE d \in {tm.due : tm \in TimersOf(id)} :
                    \A tm \in TimersOf(id) : tm.due <= d

\* C21 (SpecRegistry): a record updated to completed or failed has its
\* deletion pending, and until the retirement delay after the update has
\* elapsed it stays in the registry in its terminal state, unless an expiry
\* sweep removes it (or shutdown empties the registry).
C21_TerminalRecordStaysUntilRetired ==
    [][\A i \in 1..Len(activeTasks) :
          LET t == activeTasks[i] IN
          (/\ t.status \in {"completed", "failed"}
           /\ TimersOf(t.taskId) # {}
           /\ now' < RetireDue(t.taskId)
           /\ sweepDue' = sweepDue
           /\ lastOp'.op # "shutdown") =>
              \E j \in 1..Len(activeTasks') :
                  /\ activeTasks'[j].taskId = t.taskId
                  /\ activeTasks'[j].status = t.status]_vars

\* C22 (SpecFingerprint): two requests that differ in the text, the voice,
\* the language or the instructions have different fingerprints.
C22_ParameterDifferenceChangesFingerprint ==
    (fpHash[1] # Absent /\ fpHash[2] # Absent /\ fpReq[1] # fpReq[2]) => fpHash[1] # fpHash[2]

\* The result request of initiateSceneTiming delivered a result: the fetch
\* resolved with an OK response, success true and scene mappings.
InlineDelivered(seen) ==
    seen.net = "resolve" /\ seen.ok /\ seen.success /\ seen.mappings # "absent"

\* The poll loop starts for call p with its full budget.
PollStartsFresh(p) ==
    /\ pc'[p] = "loop" /\ attempt'[p] = 0
    /\ statusReqs'[p] = 0 /\ sleeps'[p] = 0

\* C31 (Spec): in the scene-timing tool with inline completion, a submission
\* answered 'completed' whose result request delivers success with scene
\* mappings ends the call with that result and without any status request or
\* sleep; a submission that is not 'completed', and a result request that
\* resolves non-OK or without a success, start the poll loop with the full
\* attempt budget.
C31_InlineCompletionOrPoll ==
    [][\A p \in callers :
          /\ (tool = "sceneInline" /\ pc[p] = "inline" /\ pc'[p] # "inline"
              /\ InlineDelivered(initSeen'[p])) =>
                 /\ initSeen'[p].status = "completed"
                 /\ pc'[p] = "done"
                 /\ statusReqs'[p] = 0 /\ sleeps'[p] = 0 /\ attempt'[p] = 0
                 /\ result'[p].success = (initSeen'[p].mappings = "present")
                 /\ result'[p].success => NonEmptyList(result'[p].payload)
          /\ (tool = "sceneInline" /\ pc[p] = "inline" /\ pc'[p] # "inline"
              /\ initSeen'[p].net = "resolve" /\ ~InlineDelivered(initSeen'[p])) =>
                 PollStartsFresh(p)
          /\ (tool = "sceneInline" /\ pc[p] = "submit" /\ pc'[p] \notin {"submit", "done"}
              /\ initSeen'[p].status # "completed") =>
                 PollStartsFresh(p) /\ inlineGets'[p] = 0
          /\ (tool = "sceneInline" /\ pc[p] = "submit" /\ pc'[p] \notin {"submit", "done"}
              /\ initSeen'[p].status = "completed") =>
                 pc'[p] = "inline" /\ inlineGets'[p] = 1]_vars

C31_Witness ==
    \E p \in callers :
        /\ tool = "sceneInline" /\ pc[p] = "done"
        /\ initSeen[p].status = "completed" /\ InlineDelivered(initSeen[p])
        /\ result[p].success
        /\ inlineGets[p] = 1 /\ statusReqs[p] = 0 /\ sleeps[p] = 0

\* C32 (Spec): once the signal of a call is aborted the call issues no new
\* request: no submission, start, result or status request is added on any
\* later step.
C32_NoNewRequestAfterAbort ==
    [][\A p \in callers :
          aborted[p] =>
              /\ posts'[p] = posts[p]
              /\ inlineGets'[p] = inlineGets[p]
              /\ statusReqs'[p] = statusReqs[p]]_vars

\* C33 (SpecRegistry): the firing of a deletion timeout removes only the
\* record that reached the terminal state: a record that is processing when
\* the timeout fires, such as one registered again under the same task id,
\* is still in the registry afterwards.
C33_RetirementRemovesOnlyTerminalRecord ==
    [][(retireTimers' # retireTimers /\ retireTimers' \subseteq retireTimers) =>
          \A i \in 1..Len(activeTasks) :
              activeTasks[i].status \in {"pending", "processing"} =>
                  \E j \in 1..Len(activeTasks') : activeTasks'[j] = activeTasks[i]]_vars

\* Every record that has not reached a terminal state is younger than
\* TASK_EXPIRY_MS + CLEANUP_INTERVAL_MS, or exactly that old with the sweep
\* due.
UnfinishedRecordsAreYoung ==
    \A i \in 1..Len(activeTasks) :
        activeTasks[i].status \in {"pending", "processing"} =>
            now - activeTasks[i].startTime <= TASK_EXPIRY_MS + CLEANUP_INTERVAL_MS

C35_GetInstanceReturnsTheOneInstance ==
    [][/\ constructed' <= 1
       /\ instance' = constructed'
       /\ instance # 0 => (instance' = instance /\ constructed' = constructed)
       /\ (lastOp'.op = "getInstance" /\ instance # 0) =>
              /\ activeTasks' = activeTasks
              /\ cleanupTimer' = cleanupTimer
              /\ sweepDue' = sweepDue]_vars

C35_Witness ==
    /\ lastOp = Op("getInstance", Absent, TRUE, {})
    /\ instance = 1 /\ constructed = 1
    /\ Len(activeTasks) = 2

\* The completed and failed records whose deletion timeout is pending.
AwaitingRetirement ==
    {i \in 1..Len(activeTasks) :
        /\ activeTasks[i].status \in {"completed", "failed"}
        /\ \E tm \in retireTimers : tm.taskId = activeTasks[i].taskId}

\* C36 (SpecRegistry): no record of the registry is pending, getStats
\* reports pending = 0, and active - processing is the number of completed
\* and failed records that await their retirement.
C36_NoPendingRecord ==
    /\ \A i \in 1..Len(activeTasks) : activeTasks[i].status # "pending"
    /\ getStats(activeTasks).pending = 0
    /\ getStats(activeTasks).active - getStats(activeTasks).processing
           = Cardinality(AwaitingRetirement)

C36_Witness ==
    /\ getStats(activeTasks) = [active |-> 2, pending |-> 0, processing |-> 1]
    /\ Cardinality(AwaitingRetirement) = 1
    /\ cleanupTimer = "cleared"

\* The artifact of the latest status response of call p is missing: no
\* audio_url (audio), no or an empty images list (image).
ArtifactMissing(p) ==
    \/ tool = "audio" /\ lastCheck[p].payload \in {Absent, ""}
    \/ tool = "image" /\ lastCheck[p].payload \in {Absent, "[]"}

\* C37 (Spec): the audio and image tools report success only when the poll
\* ended with a completed status and the artifact is present; a completed
\* status without audio_url or with an empty images list is reported as a
\* failure with the 'unknown error' message.
C37_SuccessNeedsArtifact ==
    \A p \in callers :
        (tool \in {"audio", "image"} /\ pc[p] = "done") =>
            /\ result[p].success =>
                  /\ lastCheck[p].kind = "succeeded"
                  /\ ~ArtifactMissing(p)
                  /\ result[p].payload = lastCheck[p].payload
            /\ (lastCheck[p].kind = "succeeded" /\ ArtifactMissing(p)) =>
                  /\ result[p].success = FALSE
                  /\ result[p].error = MsgUnknown

C37_Witness ==
    \E p \in callers :
        /\ tool = "image" /\ pc[p] = "done"
        /\ lastCheck[p].kind = "succeeded" /\ lastCheck[p].payload = "[]"
        /\ result[p].error = MsgUnknown

\* The latest status check of call p got an OK response with a body.
CheckAnswered(p) == lastCheck[p].net = "resolve" /\ lastCheck[p].http = 200

\* C38 (Spec): the transcription tool takes a status response as Succeeded
\* iff stage = 'completed' and status = 'success', otherwise as Failed iff
\* stage = 'error' or status = 'failed', otherwise as in progress: a
\* succeeded or failed response ends the call at once, and after any other
\* response the poll runs on and can only end by timeout, after maxAttempts
\* checks, or by cancellation.
C38_TranscriptionStatusMapping ==
    \A p \in callers :
        (tool = "transcription" /\ CheckAnswered(p)) =>
            LET c == lastCheck[p]
                succeeded == c.stage = "completed" /\ c.status = "success"
                failed == ~succeeded /\ (c.stage = "error" \/ c.status = "failed")
            IN  /\ succeeded =>
                      /\ pc[p] = "done"
                      /\ result[p].success = (c.payload \notin {Absent, ""})
                      /\ ~result[p].success => result[p].error = MsgUnknown
                /\ failed =>
                      /\ pc[p] = "done"
                      /\ result[p].success = FALSE
                      /\ result[p].error =
                            (IF c.error \in {Absent, ""} THEN MsgDefaultFailed ELSE c.error)
                /\ (~succeeded /\ ~failed) =>
                      \/ pc[p] \in {"sleep", "loop", "status"}
                      \/ /\ pc[p] = "done"
                         /\ result[p].error = MsgCancelled
                      \/ /\ pc[p] = "done"
                         /\ result[p].error = MsgTimeout
                         /\ statusReqs[p] = maxAttempts

C38_Witness ==
    \E p \in callers :
        /\ tool = "transcription" /\ CheckAnswered(p)
        /\ lastCheck[p].stage = "completed" /\ lastCheck[p].status = "processing"
        /\ pc[p] = "done" /\ result[p].error = MsgTimeout
        /\ maxAttempts = 2

(***************************************************************************)
(* C39: the events streamEndpoint yields.                                  *)
(***************************************************************************)
\* The first line of the run of consecutive data lines that ends at line i.
RunStart(i) ==
    CHOOSE j \in 1..i :
        /\ \A k \in j..i : StartsWithData(stream[k])
        /\ j = 1 \/ ~StartsWithData(stream[j - 1])

\* The event parsed from the group of data lines that ends at line i.
EventOf(i) ==
    LET j == RunStart(i) IN
    JsonParse(Join([k \in 1..(i - j + 1) |-> SliceTrim(stream[j + k - 1])]))

\* The last lines of the groups among the first n lines: of the groups a
\* blank line follows and, with atEnd, of a group that ends the stream too.
GroupEnds(n, atEnd) ==
    {i \in 1..n : /\ StartsWithData(stream[i])
                  /\ \/ i < n /\ stream[i + 1] = ""
                     \/ atEnd /\ i = n}

\* The events of the groups that end at the lines of S, in stream order.
RECURSIVE EventsAt(_)
EventsAt(S) ==
    IF S = {} THEN <<>>
    ELSE LET i == CHOOSE x \in S : \A y \in S : x <= y
         IN  <<EventOf(i)>> \o EventsAt(S \ {i})

\* C39 as stated: when the stream has ended, the generator has yielded one
\* event per group of consecutive data lines, in stream order, the last
\* group included even when no blank line follows it.
C39_EveryGroupIsYielded ==
    spc = "ended" => yielded = EventsAt(GroupEnds(Len(stream), TRUE))

\* C39, amended: after every line read, the generator has yielded, in stream
\* order, one event per group of consecutive data lines that a blank line
\* read so far follows, and it buffers the data lines read since; a blank
\* line with nothing buffered yields nothing, and a last group that no blank
\* line follows is still buffered, not yielded, when the stream ends.
C39_EveryTerminatedGroupIsYielded ==
    /\ yielded = EventsAt(GroupEnds(pos, FALSE))
    /\ spc # "thrown" =>
          bufferedLines =
             IF pos > 0 /\ StartsWithData(stream[pos])
             THEN LET j == RunStart(pos)
                  IN  [k \in 1..(pos - j + 1) |-> SliceTrim(stream[j + k - 1])]
             ELSE <<>>
    /\ spc = "ended" =>
          /\ pos = Len(stream)
          /\ Len(yielded) = Cardinality(GroupEnds(Len(stream), FALSE))

\* The stream has ended after a yielded event and a blank line that yielded
\* nothing, with a last group still buffered.
C39_Witness ==
    /\ spc = "ended"
    /\ Len(yielded) = 1
    /\ Len(bufferedLines) = 1
    /\ \E i \in 2..Len(stream) : stream[i] = "" /\ stream[i - 1] = ""

=============================================================================
